---- MODULE Spec2Model ----
(***************************************************************************)
(* Model of lxd-to-incus (cmd/lxd-to-incus/main.go): cmdMigrate.Run, the   *)
(* migration orchestrator, as a sequential state machine.  One action per  *)
(* step of Run; the answers of the daemons, the operator, the filesystem   *)
(* and the external tools are inputs drawn with \E.                        *)
(***************************************************************************)
EXTENDS Integers, Sequences, FiniteSets, TLC

\* ------------------------------------------------------------------ bounds

\* Largest number of cluster members a member list holds.
MaxMembers == 2
\* Largest number of storage pool descriptors the rewriter is given.
MaxPools == 2
\* Largest number of instance symlinks the cleanup alone is given.
MaxLinks == 2

\* ----------------------------------------------------------------- strings
\* A Go string whose bytes matter (a path) is a sequence of one-character
\* strings; "" is << >>.

\* strings.HasPrefix(s, prefix)
HasPrefix(s, prefix) ==
    /\ Len(prefix) <= Len(s)
    /\ SubSeq(s, 1, Len(prefix)) = prefix

\* strings.Index(s, old): the first position (1-based) at which old occurs
\* in s, 0 when it does not occur.
Index(s, old) ==
    LET Hits == {i \in 1..(Len(s) - Len(old) + 1) :
                    SubSeq(s, i, i + Len(old) - 1) = old}
    IN  IF Hits = {} THEN 0
        ELSE CHOOSE i \in Hits : \A j \in Hits : i <= j

\* strings.Replace(s, old, new, 1): the first occurrence of old replaced.
ReplaceOnce(s, old, new) ==
    LET i == Index(s, old)
    IN  IF i = 0 THEN s
        ELSE SubSeq(s, 1, i - 1) \o new \o SubSeq(s, i + Len(old), Len(s))

\* util.ValueInSlice(v, slice)
ValueInSlice(v, slice) == \E i \in 1..Len(slice) : slice[i] = v

Range(s) == {s[i] : i \in 1..Len(s)}

\* ------------------------------------------------------------------- paths
\* DaemonPaths.Daemon of the source and of the target, as Paths() returns
\* them (/var/lib/lxd and /var/lib/incus, shortened).
SourceDaemonPath == <<"/", "l">>
TargetDaemonPath == <<"/", "i">>
NoPath == << >>

\* ----------------------------------------------------------- storage pools
\* lxdAPI.StoragePool: Name, Driver, Config (a map: a function whose domain
\* is the set of keys present).
Pool(name, driver, config) == [Name |-> name, Driver |-> driver, Config |-> config]

EmptyConfig == [k \in {} |-> << >>]

\* pool.Config[key] of a Go map: the zero value "" when the key is absent.
ConfigValue(config, key) == IF key \in DOMAIN config THEN config[key] ELSE << >>

\* Source values of the descriptors: absent, empty, relative, under the
\* source root (once with the root's bytes occurring a second time), a
\* sibling that shares the root as a string prefix, outside.
SourceUnder == SourceDaemonPath \o <<"/", "a">>
SourceNested == SourceDaemonPath \o SourceDaemonPath
SourceSibling == SourceDaemonPath \o <<"x", "/", "a">>
SourceOutside == <<"/", "x">>
SourceRelative == <<"a">>
SourceOptions ==
    {SourceUnder, SourceNested, SourceSibling, SourceOutside, SourceRelative, << >>}

CephConfigs ==
    {osd @@ cu @@ src :
        osd \in {EmptyConfig} \cup {("ceph.osd.pool_name" :> n) : n \in {"a", "r"}},
        cu  \in {EmptyConfig, ("ceph.cluster_name" :> "c2") @@ ("ceph.user.name" :> "u2")},
        src \in {EmptyConfig, ("source" :> SourceUnder)}}

DirConfigs == {EmptyConfig} \cup {("source" :> s) : s \in SourceOptions}

PoolUniverse ==
    {Pool(n, "ceph", c) : n \in {"a", "b"}, c \in CephConfigs}
        \cup {Pool(n, "dir", c) : n \in {"a", "b"}, c \in DirConfigs}

SeqsUpTo(S, n) == UNION {[1..k -> S] : k \in 0..n}

\* What the source daemon may answer in a full run: no pool, a local pool
\* under the source root, two ceph pools on one RBD pool and a local one.
ScenarioPools ==
    { << >>,
      << Pool("a", "dir", ("source" :> SourceUnder)) >>,
      << Pool("a", "ceph", ("ceph.osd.pool_name" :> "r")),
         Pool("b", "ceph", ("ceph.osd.pool_name" :> "r")) >> }

\* The pools read once per cluster member (lines 184-198).
RECURSIVE Repeat(_, _)
Repeat(s, n) == IF n = 0 THEN << >> ELSE s \o Repeat(s, n - 1)

\* --------------------------------------------------------------- variables

VARIABLES
    pc,                 \* position in cmdMigrate.Run
    exitCode,           \* -1 while running; 0, 1, or 2 (panic) once ended
    errs,               \* the steps whose operation returned an error
    phases,             \* the phases entered so far, in order
    flagYes,            \* --yes
    flagClusterMember,  \* --cluster-member
    envNoEvacuate,      \* os.Getenv("CLUSTER_NO_EVACUTE") == "1"
    srcClient,          \* "nil" or "connected"
    clustered,
    srcReads,           \* queries answered by the source daemon so far
    sourcePaths,        \* sourcePaths.Daemon
    targetPaths,        \* targetPaths.Daemon
    storagePools,
    poolIdx,            \* position of the loop of line 202
    rbdRenamed,
    rewriteStatements,
    rewriteCommands,
    prompts,            \* the questions asked, each with its latest answer
    clusterMembers,     \* the member list the running loop ranges over
    evacSent,           \* members an evacuate request was sent for
    evacDone,           \* members whose evacuate operation finished
    sourceRunning,      \* the source daemon may be live
    targetRunning,      \* the target daemon may be live
    fsLog,              \* filesystem mutations performed, in order
    symlinks,           \* targets of the instance symlinks of the state dir
    linkIdx,            \* position of the loop of line 471
    memberIdx,          \* position of the running loop over clusterMembers
    cmdsRun,            \* external commands executed, in order
    poll,               \* the current round of the convergence wait
    patchFile,          \* content of database/patch.global.sql, "" if none
    restoreSent,
    restoreDone,
    purged

ctlVars == <<pc, exitCode, errs, phases>>
flagVars == <<flagYes, flagClusterMember, envNoEvacuate>>
connVars == <<srcClient, clustered>>
pathVars == <<sourcePaths, targetPaths>>
rewriteVars == <<storagePools, poolIdx, rbdRenamed, rewriteStatements, rewriteCommands>>
evacVars == <<evacSent, evacDone>>
daemonVars == <<sourceRunning, targetRunning>>
fsVars == <<fsLog, symlinks, linkIdx, patchFile>>
restoreVars == <<restoreSent, restoreDone>>

vars == <<ctlVars, flagVars, connVars, srcReads, pathVars, rewriteVars, prompts,
          clusterMembers, memberIdx, evacVars, daemonVars, fsVars, cmdsRun, poll,
          restoreVars, purged>>

\* No polling round is running.
NoPoll == [fetched |-> FALSE, count |-> 0, members |-> << >>, infos |-> << >>]

\* The instance symlinks found under the source state directory: one into
\* the source root, one elsewhere.
FoundSymlinks == << SourceDaemonPath \o <<"/", "p">>, <<"/", "x">> >>

InitRun ==
    /\ exitCode = -1
    /\ errs = {}
    /\ phases = << >>
    /\ srcClient = "nil"
    /\ clustered = FALSE
    /\ srcReads = 0
    /\ sourcePaths = NoPath
    /\ targetPaths = NoPath
    /\ poolIdx = 1
    /\ rbdRenamed = << >>
    /\ rewriteStatements = << >>
    /\ rewriteCommands = << >>
    /\ prompts = {}
    /\ clusterMembers = << >>
    /\ memberIdx = 1
    /\ evacSent = << >>
    /\ evacDone = << >>
    /\ sourceRunning = TRUE
    /\ targetRunning = TRUE
    /\ fsLog = << >>
    /\ symlinks = FoundSymlinks
    /\ linkIdx = 1
    /\ cmdsRun = << >>
    /\ poll = NoPoll
    /\ patchFile = << >>
    /\ restoreSent = << >>
    /\ restoreDone = << >>
    /\ purged = FALSE

Init ==
    /\ pc = "checkRoot"
    /\ flagYes \in BOOLEAN
    /\ flagClusterMember \in BOOLEAN
    /\ envNoEvacuate \in BOOLEAN
    /\ storagePools = << >>
    /\ InitRun

\* ------------------------------------------------------------ control flow

\* The phase names are those of the spec's phase table; "" is a step that
\* belongs to no phase (the root check, the path lookup, a skipped phase).
AddPhase(p) ==
    IF p = "" \/ (phases # << >> /\ phases[Len(phases)] = p)
    THEN phases
    ELSE Append(phases, p)

\* Go on to the step `next`, which belongs to phase `p`.
Goto(next, p) ==
    /\ pc' = next
    /\ exitCode' = exitCode
    /\ errs' = errs
    /\ phases' = AddPhase(p)

\* `return err` of Run at step `step`: main exits with code 1 (line 60).
ReturnErr(step, p) ==
    /\ pc' = "done"
    /\ exitCode' = 1
    /\ errs' = errs \cup {step}
    /\ phases' = AddPhase(p)

\* os.Exit(1) after a declined confirmation.
Exit1(p) ==
    /\ pc' = "done"
    /\ exitCode' = 1
    /\ errs' = errs
    /\ phases' = AddPhase(p)

\* A nil-interface method call: the Go runtime panics and the process exits
\* with code 2.
Panic(p) ==
    /\ pc' = "done"
    /\ exitCode' = 2
    /\ errs' = errs
    /\ phases' = AddPhase(p)

\* ----------------------------------------------- discovery and connection

lateVars == <<prompts, clusterMembers, memberIdx, evacVars, daemonVars, fsVars, cmdsRun,
              poll, restoreVars, purged>>

\* Lines 86-89.
CheckRoot ==
    /\ pc = "checkRoot"
    /\ \E euid \in {0, 1000} :
          IF euid # 0 THEN ReturnErr("root", "") ELSE Goto("findSource", "")
    /\ UNCHANGED <<flagVars, connVars, srcReads, pathVars, rewriteVars, lateVars>>

\* Lines 91-107: the first candidate that is Present(), if any.
FindSource ==
    /\ pc = "findSource"
    /\ \E present \in BOOLEAN :
          IF present THEN Goto("findTarget", "Discover")
          ELSE ReturnErr("noSource", "Discover")
    /\ UNCHANGED <<flagVars, connVars, srcReads, pathVars, rewriteVars, lateVars>>

\* Lines 109-123.
FindTarget ==
    /\ pc = "findTarget"
    /\ \E present \in BOOLEAN :
          IF present THEN Goto("connectSource", "Discover")
          ELSE ReturnErr("noTarget", "Discover")
    /\ UNCHANGED <<flagVars, connVars, srcReads, pathVars, rewriteVars, lateVars>>

\* Lines 125-140: with --cluster-member the source is not connected to and
\* srcClient stays nil.
ConnectSource ==
    /\ pc = "connectSource"
    /\ IF flagClusterMember
       THEN /\ clustered' = flagClusterMember
            /\ UNCHANGED <<srcClient, srcReads>>
            /\ Goto("connectTarget", "Connect")
       ELSE \E r \in {"connectErr", "infoErr", "standalone", "cluster"} :
               CASE r = "connectErr" ->
                      /\ UNCHANGED <<srcClient, clustered, srcReads>>
                      /\ ReturnErr("connectSource", "Connect")
                 [] r = "infoErr" ->
                      /\ srcClient' = "connected"
                      /\ srcReads' = srcReads + 1
                      /\ UNCHANGED clustered
                      /\ ReturnErr("sourceInfo", "Connect")
                 [] OTHER ->
                      /\ srcClient' = "connected"
                      /\ srcReads' = srcReads + 1
                      /\ clustered' = (r = "cluster")
                      /\ Goto("connectTarget", "Connect")
    /\ UNCHANGED <<flagVars, pathVars, rewriteVars, lateVars>>

\* Lines 142-146.
ConnectTarget ==
    /\ pc = "connectTarget"
    /\ \E ok \in BOOLEAN :
          IF ok THEN Goto("validate", "Connect")
          ELSE ReturnErr("connectTarget", "Connect")
    /\ UNCHANGED <<flagVars, connVars, srcReads, pathVars, rewriteVars, lateVars>>

\* c.validate(source, target): a check that reads and either passes or
\* returns an error.
validate == {"ok", "err"}

\* Lines 148-154.
Validate ==
    /\ pc = "validate"
    /\ IF flagClusterMember
       THEN Goto("paths", "")
       ELSE \E r \in validate :
               IF r = "ok" THEN Goto("paths", "Validate")
               ELSE ReturnErr("validate", "Validate")
    /\ UNCHANGED <<flagVars, connVars, srcReads, pathVars, rewriteVars, lateVars>>

\* Lines 156-165.
Paths ==
    /\ pc = "paths"
    /\ \E r \in {"sourceErr", "targetErr", "ok"} :
          CASE r = "sourceErr" ->
                 /\ UNCHANGED pathVars
                 /\ ReturnErr("sourcePaths", "")
            [] r = "targetErr" ->
                 /\ sourcePaths' = SourceDaemonPath
                 /\ UNCHANGED targetPaths
                 /\ ReturnErr("targetPaths", "")
            [] OTHER ->
                 /\ sourcePaths' = SourceDaemonPath
                 /\ targetPaths' = TargetDaemonPath
                 /\ Goto("storagePools", "")
    /\ UNCHANGED <<flagVars, connVars, srcReads, rewriteVars, lateVars>>

\* ------------------------------------------------------- gathering rewrites

\* Lines 171-199: the pool descriptors of the source, read once (standalone)
\* or once per cluster member; skipped with --cluster-member.
GetStoragePools ==
    /\ pc = "storagePools"
    /\ IF flagClusterMember
       THEN /\ Goto("mangleOVN", "")
            /\ UNCHANGED <<storagePools, srcReads>>
       ELSE IF ~clustered
       THEN \E ok \in BOOLEAN, r \in ScenarioPools :
               IF ~ok
               THEN /\ ReturnErr("listPools", "GatherRewrites")
                    /\ srcReads' = srcReads + 1
                    /\ UNCHANGED storagePools
               ELSE /\ Goto("manglePools", "GatherRewrites")
                    /\ srcReads' = srcReads + 1
                    /\ storagePools' = r
       ELSE \E n \in 0..MaxMembers, per \in ScenarioPools,
               r \in {"membersErr", "namesErr", "poolErr", "ok"} :
               CASE r = "membersErr" ->
                      /\ ReturnErr("clusterMembers", "GatherRewrites")
                      /\ srcReads' = srcReads + 1
                      /\ UNCHANGED storagePools
                 [] r = "namesErr" /\ n > 0 ->
                      /\ ReturnErr("poolNames", "GatherRewrites")
                      /\ srcReads' = srcReads + 2
                      /\ UNCHANGED storagePools
                 [] r = "poolErr" /\ n > 0 /\ per # << >> ->
                      /\ ReturnErr("getPool", "GatherRewrites")
                      /\ srcReads' = srcReads + 3
                      /\ UNCHANGED storagePools
                 [] OTHER ->
                      /\ Goto("manglePools", "GatherRewrites")
                      /\ srcReads' = srcReads + 1 + n * (1 + Len(per))
                      /\ storagePools' = Repeat(per, n)
    /\ UNCHANGED <<flagVars, connVars, pathVars, poolIdx, rbdRenamed,
                   rewriteStatements, rewriteCommands, lateVars>>

\* Lines 204-217: the ceph settings of a pool, with their defaults.
CephCluster(pool) ==
    IF "ceph.cluster_name" \in DOMAIN pool.Config
    THEN pool.Config["ceph.cluster_name"] ELSE "ceph"

CephClient(pool) ==
    IF "ceph.user.name" \in DOMAIN pool.Config
    THEN pool.Config["ceph.user.name"] ELSE "admin"

RbdPool(pool) ==
    IF "ceph.osd.pool_name" \in DOMAIN pool.Config
    THEN pool.Config["ceph.osd.pool_name"] ELSE pool.Name

\* Line 219; fmt.Sprintf("%s/lxd_%s", ...) is the tuple of its parts.
RenameCmd(pool) ==
    <<"rbd", "rename", "--cluster", CephCluster(pool), "--name", CephClient(pool),
      <<RbdPool(pool), "/lxd_", RbdPool(pool)>>,
      <<RbdPool(pool), "/incus_", RbdPool(pool)>> >>

\* Line 220: the key the rename commands are deduplicated by.
RenamedKey(pool) == pool.Name

\* Lines 203-224: the command list and rbdRenamed after the ceph part of one
\* loop iteration.
MangleCeph(pool, commands, renamed) ==
    IF pool.Driver = "ceph" /\ ~ValueInSlice(RenamedKey(pool), renamed)
    THEN [commands |-> Append(commands, RenameCmd(pool)),
          renamed  |-> Append(renamed, RenamedKey(pool))]
    ELSE [commands |-> commands, renamed |-> renamed]

\* Lines 226-233: whether the pool's source is rewritten.
SourceIsRewritten(source, root) ==
    /\ source # << >>
    /\ source[1] = "/"
    /\ HasPrefix(source, root)

\* UpdateStatement with every occurrence of the root replaced
\* (strings.Replace with n = -1).
RECURSIVE ReplaceAll(_, _, _)
ReplaceAll(s, old, new) ==
    LET i == Index(s, old)
    IN  IF i = 0 \/ old = << >> THEN s
        ELSE SubSeq(s, 1, i - 1) \o new
                \o ReplaceAll(SubSeq(s, i + Len(old), Len(s)), old, new)

UpdateStatementAll(source, root, newRoot) ==
    <<"UPDATE storage_pools_config SET value='">>
        \o ReplaceAll(source, root, newRoot)
        \o <<"' WHERE value='">> \o source \o <<"';">>

\* Lines 235-236.
UpdateStatement(source, root, newRoot) ==
    <<"UPDATE storage_pools_config SET value='">>
        \o ReplaceOnce(source, root, newRoot)
        \o <<"' WHERE value='">> \o source \o <<"';">>

\* Lines 226-236: the statement list after the source part of one iteration.
MangleSource(pool, statements, root, newRoot) ==
    LET source == ConfigValue(pool.Config, "source")
    IN  IF SourceIsRewritten(source, root)
        THEN Append(statements, UpdateStatement(source, root, newRoot))
        ELSE statements

\* Lines 201-237: one iteration of the loop over storagePools.
ManglePool ==
    /\ pc = "manglePools"
    /\ IF poolIdx > Len(storagePools)
       THEN /\ Goto("mangleOVN", "GatherRewrites")
            /\ UNCHANGED <<poolIdx, rbdRenamed, rewriteStatements, rewriteCommands>>
       ELSE LET pool == storagePools[poolIdx]
                ceph == MangleCeph(pool, rewriteCommands, rbdRenamed)
            IN  /\ Goto("manglePools", "GatherRewrites")
                /\ poolIdx' = poolIdx + 1
                /\ rewriteCommands' = ceph.commands
                /\ rbdRenamed' = ceph.renamed
                /\ rewriteStatements' =
                       MangleSource(pool, rewriteStatements, sourcePaths, targetPaths)
    /\ UNCHANGED <<flagVars, connVars, srcReads, pathVars, storagePools, lateVars>>

\* ovnConvert(nb, sb) and ovsConvert(): the commands they prepare.
ovnConvert == << <<"ovn-nbctl">> >>
ovsConvert == << <<"ovs-vsctl">> >>

\* Lines 240-270.  srcClient is nil in a --cluster-member run (line 127), so
\* the call of line 241 panics there.
MangleOVN ==
    /\ pc = "mangleOVN"
    /\ IF srcClient = "nil"
       THEN /\ Panic("GatherRewrites")
            /\ UNCHANGED <<srcReads, rewriteCommands>>
       ELSE \E r \in {"infoErr", "noOVN", "ovsQueryErr", "ovnConvertErr",
                      "ovsConvertErr", "ok"} :
               CASE r = "infoErr" ->
                      /\ ReturnErr("sourceInfo", "GatherRewrites")
                      /\ srcReads' = srcReads + 1
                      /\ UNCHANGED rewriteCommands
                 [] r = "noOVN" ->
                      /\ Goto("confirm", "GatherRewrites")
                      /\ srcReads' = srcReads + 1
                      /\ UNCHANGED rewriteCommands
                 [] r = "ovsQueryErr" /\ ~flagClusterMember ->
                      /\ ReturnErr("ovsQuery", "GatherRewrites")
                      /\ srcReads' = srcReads + 1
                      /\ UNCHANGED rewriteCommands
                 [] r = "ovnConvertErr" /\ ~flagClusterMember ->
                      /\ ReturnErr("ovnConvert", "GatherRewrites")
                      /\ srcReads' = srcReads + 1
                      /\ UNCHANGED rewriteCommands
                 [] r = "ovsConvertErr" ->
                      /\ ReturnErr("ovsConvert", "GatherRewrites")
                      /\ srcReads' = srcReads + 1
                      /\ UNCHANGED rewriteCommands
                 [] OTHER ->
                      /\ Goto("confirm", "GatherRewrites")
                      /\ srcReads' = srcReads + 1
                      /\ rewriteCommands' =
                            IF flagClusterMember
                            THEN rewriteCommands \o ovsConvert
                            ELSE rewriteCommands \o ovnConvert \o ovsConvert
    /\ UNCHANGED <<flagVars, connVars, pathVars, storagePools, poolIdx,
                   rbdRenamed, rewriteStatements, lateVars>>

\* ------------------------------------------------- confirmation, evacuation

\* c.global.asker.AskBool: an answer, or an error.
AskBool == {"yes", "no", "err"}

\* The prompts once `question` has been asked and answered `a`.
Asked(question, a) == {q \in prompts : q[1] # question} \cup {<<question, a>>}

\* Confirm with the os.Exit(1) of a declined confirmation left out.
ConfirmIgnoresNo ==
    /\ pc = "confirm"
    /\ IF ~flagClusterMember /\ ~flagYes
       THEN \E a \in AskBool :
               /\ prompts' = Asked("Proceed with the migration?", a)
               /\ IF a = "err" THEN ReturnErr("confirm", "Confirm")
                  ELSE Goto("evacuate", "Confirm")
       ELSE /\ Goto("evacuate", "")
            /\ UNCHANGED prompts
    /\ UNCHANGED <<flagVars, connVars, srcReads, pathVars, rewriteVars,
                   clusterMembers, memberIdx, evacVars, daemonVars, fsVars,
                   cmdsRun, poll, restoreVars, purged>>

\* Lines 272-316: the same question on a standalone and a clustered host.
Confirm ==
    /\ pc = "confirm"
    /\ IF ~flagClusterMember /\ ~flagYes
       THEN \E a \in AskBool :
               /\ prompts' = Asked("Proceed with the migration?", a)
               /\ CASE a = "err" -> ReturnErr("confirm", "Confirm")
                    [] a = "no" -> Exit1("Confirm")
                    [] OTHER -> Goto("evacuate", "Confirm")
       ELSE /\ Goto("evacuate", "")
            /\ UNCHANGED prompts
    /\ UNCHANGED <<flagVars, connVars, srcReads, pathVars, rewriteVars,
                   clusterMembers, memberIdx, evacVars, daemonVars, fsVars,
                   cmdsRun, poll, restoreVars, purged>>

\* The member list a daemon answers: members 1..n.
MemberList(n) == [i \in 1..n |-> i]

\* Lines 318-325.
EvacuateBegin ==
    /\ pc = "evacuate"
    /\ IF ~flagClusterMember /\ clustered /\ ~envNoEvacuate
       THEN \E ok \in BOOLEAN, n \in 0..MaxMembers :
               IF ~ok
               THEN /\ ReturnErr("evacuateMembers", "Evacuate")
                    /\ srcReads' = srcReads + 1
                    /\ UNCHANGED <<clusterMembers, memberIdx>>
               ELSE /\ Goto("evacRequest", "Evacuate")
                    /\ srcReads' = srcReads + 1
                    /\ clusterMembers' = MemberList(n)
                    /\ memberIdx' = 1
       ELSE /\ Goto("stopSource", "")
            /\ UNCHANGED <<srcReads, clusterMembers, memberIdx>>
    /\ UNCHANGED <<flagVars, connVars, pathVars, rewriteVars, prompts, evacVars,
                   daemonVars, fsVars, cmdsRun, poll, restoreVars, purged>>

\* EvacuateRequest going on to the next member without op.Wait().
EvacuateRequestNoWait ==
    /\ pc = "evacRequest"
    /\ IF Len(evacSent) >= Len(clusterMembers)
       THEN /\ Goto("stopSource", "Evacuate")
            /\ UNCHANGED evacSent
       ELSE \E ok \in BOOLEAN :
               /\ evacSent' = Append(evacSent, clusterMembers[Len(evacSent) + 1])
               /\ IF ok THEN Goto("evacRequest", "Evacuate")
                  ELSE ReturnErr("evacuateRequest", "Evacuate")
    /\ UNCHANGED <<flagVars, connVars, srcReads, pathVars, rewriteVars, prompts,
                   clusterMembers, memberIdx, evacDone, daemonVars, fsVars,
                   cmdsRun, poll, restoreVars, purged>>

\* Lines 327-333: the evacuate request for the member the loop is at.
EvacuateRequest ==
    /\ pc = "evacRequest"
    /\ IF memberIdx > Len(clusterMembers)
       THEN /\ Goto("stopSource", "Evacuate")
            /\ UNCHANGED evacSent
       ELSE \E ok \in BOOLEAN :
               /\ evacSent' = Append(evacSent, clusterMembers[memberIdx])
               /\ IF ok THEN Goto("evacWait", "Evacuate")
                  ELSE ReturnErr("evacuateRequest", "Evacuate")
    /\ UNCHANGED <<flagVars, connVars, srcReads, pathVars, rewriteVars, prompts,
                   clusterMembers, memberIdx, evacDone, daemonVars, fsVars,
                   cmdsRun, poll, restoreVars, purged>>

\* Lines 335-338: op.Wait() returns when the member's operation has ended.
EvacuateWait ==
    /\ pc = "evacWait"
    /\ \E ok \in BOOLEAN :
          IF ok
          THEN /\ Goto("evacRequest", "Evacuate")
               /\ evacDone' = Append(evacDone, clusterMembers[memberIdx])
               /\ memberIdx' = memberIdx + 1
          ELSE /\ ReturnErr("evacuateWait", "Evacuate")
               /\ UNCHANGED <<evacDone, memberIdx>>
    /\ UNCHANGED <<flagVars, connVars, srcReads, pathVars, rewriteVars, prompts,
                   clusterMembers, evacSent, daemonVars, fsVars, cmdsRun,
                   poll, restoreVars, purged>>

\* ------------------------------------------------------------------- stop

\* Lines 345-347 and 352-354: the error of Stop() is formatted and dropped;
\* Run goes on.
DropErr(step, next, p) ==
    /\ pc' = next
    /\ exitCode' = exitCode
    /\ errs' = errs \cup {step}
    /\ phases' = AddPhase(p)

\* StopSource followed by the source.GetServer() of line 241.
StopSourceThenReads ==
    /\ pc = "stopSource"
    /\ \E ok \in BOOLEAN :
          IF ok
          THEN /\ sourceRunning' = FALSE
               /\ Goto("stopTarget", "Stop")
          ELSE /\ UNCHANGED sourceRunning
               /\ DropErr("stopSource", "stopTarget", "Stop")
    /\ srcReads' = srcReads + 1
    /\ UNCHANGED <<flagVars, connVars, pathVars, rewriteVars, prompts,
                   clusterMembers, memberIdx, evacVars, targetRunning, fsVars,
                   cmdsRun, poll, restoreVars, purged>>

\* Lines 342-347.
StopSource ==
    /\ pc = "stopSource"
    /\ \E ok \in BOOLEAN :
          IF ok
          THEN /\ sourceRunning' = FALSE
               /\ Goto("stopTarget", "Stop")
          ELSE /\ UNCHANGED sourceRunning
               /\ DropErr("stopSource", "stopTarget", "Stop")
    /\ UNCHANGED <<flagVars, connVars, srcReads, pathVars, rewriteVars, prompts,
                   clusterMembers, memberIdx, evacVars, targetRunning, fsVars,
                   cmdsRun, poll, restoreVars, purged>>

\* Lines 349-354.
StopTarget ==
    /\ pc = "stopTarget"
    /\ \E ok \in BOOLEAN :
          IF ok
          THEN /\ targetRunning' = FALSE
               /\ Goto("unmount", "Stop")
          ELSE /\ UNCHANGED targetRunning
               /\ DropErr("stopTarget", "unmount", "Stop")
    /\ UNCHANGED <<flagVars, connVars, srcReads, pathVars, rewriteVars, prompts,
                   clusterMembers, memberIdx, evacVars, sourceRunning, fsVars,
                   cmdsRun, poll, restoreVars, purged>>

\* --------------------------------------------------- wipe, move, migration

preStopVars == <<flagVars, connVars, srcReads, pathVars, rewriteVars, prompts,
                 clusterMembers, memberIdx, evacVars>>

\* Lines 356-359: errors are ignored.
Unmount ==
    /\ pc = "unmount"
    /\ fsLog' = fsLog \o <<"Unmount target guestapi", "Unmount target shmounts">>
    /\ Goto("wipe", "Unmount")
    /\ UNCHANGED <<preStopVars, daemonVars, symlinks, linkIdx, patchFile,
                   cmdsRun, poll, restoreVars, purged>>

\* The operations of a step in order, each with the error step it returns
\* through when it fails: those attempted when the k-th is the first to fail
\* (all of them when k is 0).
Attempted(ops, k) == IF k = 0 THEN ops ELSE SubSeq(ops, 1, k)

WipeOps == <<"RemoveAll target logs", "RemoveAll target cache", "RemoveAll target daemon">>

\* Lines 361-377.
WipeTarget ==
    /\ pc = "wipe"
    /\ \E k \in 0..Len(WipeOps) :
          /\ fsLog' = fsLog \o Attempted(WipeOps, k)
          /\ IF k = 0 THEN Goto("move", "Wipe") ELSE ReturnErr("wipe", "Wipe")
    /\ UNCHANGED <<preStopVars, daemonVars, symlinks, linkIdx, patchFile,
                   cmdsRun, poll, restoreVars, purged>>

\* Lines 392-418: the state directory is bind-mounted when it is a mount
\* point and renamed otherwise.
MoveOps(isMountPoint) ==
    <<"mv source logs", "mv source cache">> \o
        (IF isMountPoint
         THEN <<"MkdirAll target daemon", "Mount bind source daemon",
                "Unmount source daemon">>
         ELSE <<"mv source daemon">>)

\* Lines 379-418.
MoveData ==
    /\ pc = "move"
    /\ \E isMountPoint \in BOOLEAN :
          \E k \in 0..Len(MoveOps(isMountPoint)) :
             /\ fsLog' = fsLog \o Attempted(MoveOps(isMountPoint), k)
             /\ IF k = 0 THEN Goto("migrateDatabase", "Move")
                ELSE ReturnErr("move", "Move")
    /\ UNCHANGED <<preStopVars, daemonVars, symlinks, linkIdx, patchFile,
                   cmdsRun, poll, restoreVars, purged>>

\* Lines 420-425: migrateDatabase rewrites the database files in place.
MigrateDatabase ==
    /\ pc = "migrateDatabase"
    /\ fsLog' = Append(fsLog, "migrateDatabase")
    /\ \E ok \in BOOLEAN :
          IF ok THEN Goto("writePatch", "MigrateDB")
          ELSE ReturnErr("migrateDatabase", "MigrateDB")
    /\ UNCHANGED <<preStopVars, daemonVars, symlinks, linkIdx, patchFile,
                   cmdsRun, poll, restoreVars, purged>>

\* strings.Join(statements, "\n") + "\n" of a non-empty list: every
\* statement followed by a newline.
RECURSIVE JoinLines(_)
JoinLines(statements) ==
    IF statements = << >> THEN << >>
    ELSE Head(statements) \o <<"\n">> \o JoinLines(Tail(statements))

\* WritePatch with the error of os.WriteFile formatted and dropped.
WritePatchDropsErr ==
    /\ pc = "writePatch"
    /\ IF Len(rewriteStatements) > 0
       THEN \E ok \in BOOLEAN :
               /\ fsLog' = Append(fsLog, "WriteFile patch.global.sql")
               /\ IF ok
                  THEN /\ patchFile' = JoinLines(rewriteStatements)
                       /\ Goto("runCommands", "ApplyRewrites")
                  ELSE /\ UNCHANGED patchFile
                       /\ DropErr("writePatch", "runCommands", "ApplyRewrites")
       ELSE /\ Goto("runCommands", "")
            /\ UNCHANGED <<fsLog, patchFile>>
    /\ UNCHANGED <<preStopVars, daemonVars, symlinks, linkIdx, cmdsRun, poll,
                   restoreVars, purged>>

\* Lines 427-434.
WritePatch ==
    /\ pc = "writePatch"
    /\ IF Len(rewriteStatements) > 0
       THEN \E ok \in BOOLEAN :
               /\ fsLog' = Append(fsLog, "WriteFile patch.global.sql")
               /\ IF ok
                  THEN /\ patchFile' = JoinLines(rewriteStatements)
                       /\ Goto("runCommands", "ApplyRewrites")
                  ELSE /\ UNCHANGED patchFile
                       /\ ReturnErr("writePatch", "ApplyRewrites")
       ELSE /\ Goto("runCommands", "")
            /\ UNCHANGED <<fsLog, patchFile>>
    /\ UNCHANGED <<preStopVars, daemonVars, symlinks, linkIdx, cmdsRun, poll,
                   restoreVars, purged>>

\* RunCommand with the error of a command formatted and dropped.
RunCommandKeepsGoing ==
    /\ pc = "runCommands"
    /\ IF Len(cmdsRun) >= Len(rewriteCommands)
       THEN /\ Goto("cleanup", "")
            /\ UNCHANGED cmdsRun
       ELSE \E ok \in BOOLEAN :
               /\ cmdsRun' = Append(cmdsRun, rewriteCommands[Len(cmdsRun) + 1])
               /\ IF ok THEN Goto("runCommands", "ApplyRewrites")
                  ELSE DropErr("runCommand", "runCommands", "ApplyRewrites")
    /\ UNCHANGED <<preStopVars, daemonVars, fsVars, poll, restoreVars, purged>>

\* Lines 436-444: one iteration of the loop over rewriteCommands.
RunCommand ==
    /\ pc = "runCommands"
    /\ IF Len(cmdsRun) >= Len(rewriteCommands)
       THEN /\ Goto("cleanup", "")
            /\ UNCHANGED cmdsRun
       ELSE \E ok \in BOOLEAN :
               /\ cmdsRun' = Append(cmdsRun, rewriteCommands[Len(cmdsRun) + 1])
               /\ IF ok THEN Goto("runCommands", "ApplyRewrites")
                  ELSE ReturnErr("runCommand", "ApplyRewrites")
    /\ UNCHANGED <<preStopVars, daemonVars, fsVars, poll, restoreVars, purged>>

\* ---------------------------------------------------------------- cleanup

\* Lines 449-459: the two os.Remove ignore their errors.
CleanupOps ==
    <<"Remove backups", "Remove images", "RemoveAll devices", "RemoveAll devlxd",
      "RemoveAll security", "RemoveAll shmounts">>

\* Lines 446-469: the obsolete directories, then the listing of the
\* instance directories.
CleanupDirs ==
    /\ pc = "cleanup"
    /\ \E r \in {"removeErr", "readDirErr", "ok"} :
          CASE r = "removeErr" ->
                 /\ \E k \in 3..Len(CleanupOps) :
                       fsLog' = fsLog \o Attempted(CleanupOps, k)
                 /\ ReturnErr("cleanupRemove", "Cleanup")
            [] r = "readDirErr" ->
                 /\ fsLog' = fsLog \o CleanupOps
                 /\ ReturnErr("readDir", "Cleanup")
            [] OTHER ->
                 /\ fsLog' = fsLog \o CleanupOps
                 /\ Goto("symlinks", "Cleanup")
    /\ linkIdx' = 1
    /\ UNCHANGED <<preStopVars, daemonVars, symlinks, patchFile, cmdsRun, poll,
                   restoreVars, purged>>

\* Line 483: the target a symlink is recreated with.
NewTarget(oldTarget, root, newRoot) == ReplaceOnce(oldTarget, root, newRoot)

\* A symlink that os.Remove deleted and os.Symlink did not recreate.
RemovedLink == <<"(removed)">>

\* Lines 471-493: one symlink of the instance directories.
RepairSymlink ==
    /\ pc = "symlinks"
    /\ IF linkIdx > Len(symlinks)
       THEN /\ Goto("startTarget", "Cleanup")
            /\ UNCHANGED <<fsLog, symlinks, linkIdx>>
       ELSE \E r \in {"readDirErr", "readlinkErr", "removeErr", "symlinkErr", "ok"} :
               CASE r = "readDirErr" ->
                      /\ ReturnErr("readDir", "Cleanup")
                      /\ UNCHANGED <<fsLog, symlinks, linkIdx>>
                 [] r = "readlinkErr" ->
                      /\ ReturnErr("readlink", "Cleanup")
                      /\ UNCHANGED <<fsLog, symlinks, linkIdx>>
                 [] r = "removeErr" ->
                      /\ ReturnErr("removeSymlink", "Cleanup")
                      /\ fsLog' = Append(fsLog, "Remove symlink")
                      /\ UNCHANGED <<symlinks, linkIdx>>
                 [] r = "symlinkErr" ->
                      /\ ReturnErr("symlink", "Cleanup")
                      /\ fsLog' = fsLog \o <<"Remove symlink", "Symlink">>
                      /\ symlinks' = [symlinks EXCEPT ![linkIdx] = RemovedLink]
                      /\ UNCHANGED linkIdx
                 [] OTHER ->
                      /\ Goto("symlinks", "Cleanup")
                      /\ fsLog' = fsLog \o <<"Remove symlink", "Symlink">>
                      /\ symlinks' = [symlinks EXCEPT ![linkIdx] =
                            NewTarget(symlinks[linkIdx], sourcePaths, targetPaths)]
                      /\ linkIdx' = linkIdx + 1
    /\ UNCHANGED <<preStopVars, daemonVars, patchFile, cmdsRun, poll,
                   restoreVars, purged>>

\* Lines 496-501.
StartTarget ==
    /\ pc = "startTarget"
    /\ \E ok \in BOOLEAN :
          IF ok
          THEN /\ targetRunning' = TRUE
               /\ Goto("clusterPrompt", "Start")
          ELSE /\ UNCHANGED targetRunning
               /\ ReturnErr("startTarget", "Start")
    /\ UNCHANGED <<preStopVars, sourceRunning, fsVars, cmdsRun, poll,
                   restoreVars, purged>>

\* ------------------------------------------------------- cluster handling

postStartVars == <<preStopVars, daemonVars, fsVars, cmdsRun>>

\* ClusterPrompt asking on a standalone host as well.
ClusterPromptUnclustered ==
    /\ pc = "clusterPrompt"
    /\ IF ~flagClusterMember
       THEN \E a \in AskBool :
               /\ prompts' = Asked("The command has been started on all other servers?", a)
               /\ IF a # "yes" THEN Goto("clusterPrompt", "")
                  ELSE IF clustered THEN Goto("warmup", "")
                  ELSE Goto("validateTarget", "")
       ELSE /\ UNCHANGED prompts
            /\ IF clustered THEN Goto("warmup", "") ELSE Goto("validateTarget", "")
    /\ UNCHANGED <<flagVars, connVars, srcReads, pathVars, rewriteVars,
                   clusterMembers, memberIdx, evacVars, daemonVars, fsVars,
                   cmdsRun, poll, restoreVars, purged>>

\* ClusterPrompt returning the error of the prompt.
ClusterPromptErrAborts ==
    /\ pc = "clusterPrompt"
    /\ IF clustered /\ ~flagClusterMember
       THEN \E a \in AskBool :
               /\ prompts' = Asked("The command has been started on all other servers?", a)
               /\ CASE a = "yes" -> Goto("warmup", "")
                    [] a = "err" -> ReturnErr("clusterPrompt", "")
                    [] OTHER -> Goto("clusterPrompt", "")
       ELSE /\ UNCHANGED prompts
            /\ IF clustered THEN Goto("warmup", "") ELSE Goto("validateTarget", "")
    /\ UNCHANGED <<flagVars, connVars, srcReads, pathVars, rewriteVars,
                   clusterMembers, memberIdx, evacVars, daemonVars, fsVars,
                   cmdsRun, poll, restoreVars, purged>>

\* Lines 503-518: asked again until the answer is yes.
ClusterPrompt ==
    /\ pc = "clusterPrompt"
    /\ IF clustered /\ ~flagClusterMember
       THEN \E a \in AskBool :
               /\ prompts' = Asked("The command has been started on all other servers?", a)
               /\ IF a = "yes" THEN Goto("warmup", "") ELSE Goto("clusterPrompt", "")
       ELSE /\ UNCHANGED prompts
            /\ IF clustered THEN Goto("warmup", "") ELSE Goto("validateTarget", "")
    /\ UNCHANGED <<flagVars, connVars, srcReads, pathVars, rewriteVars,
                   clusterMembers, memberIdx, evacVars, daemonVars, fsVars,
                   cmdsRun, poll, restoreVars, purged>>

\* Lines 520-522: time.Sleep(30 * time.Second).
Warmup ==
    /\ pc = "warmup"
    /\ Goto("convergeFetch", "Converge")
    /\ UNCHANGED <<postStartVars, poll, restoreVars, purged>>

\* incusAPI.ClusterMember as the target lists it: ServerName, Status, Message.
MemberStatuses == {"Online", "Evacuated", "Offline"}
MemberMessages == {"Fully operational", "Unavailable due to maintenance",
                   "No heartbeat"}
PolledMember(i) ==
    {[ServerName |-> i, Status |-> st, Message |-> msg] :
        st \in MemberStatuses, msg \in MemberMessages}

\* UseTarget(member).GetServer(): info.Environment.Server, or an error.
ServerInfos == {"incus", "lxd", "err"}

\* Lines 524-529: the member list of a polling round.  poll.count is the
\* length of the list; an entry of the list is drawn when the loop of line
\* 532 reads it (the loop ends the round at the first member that is not
\* ready, and the entries after it are never read).
ConvergeFetch ==
    /\ pc = "convergeFetch"
    /\ \E ok \in BOOLEAN :
          IF ok
          THEN \E n \in 0..MaxMembers :
                  /\ poll' = [fetched |-> TRUE, count |-> n,
                              members |-> << >>, infos |-> << >>]
                  /\ Goto("convergeCheck", "Converge")
          ELSE /\ poll' = NoPoll
               /\ Goto("convergeSleep", "Converge")
    /\ UNCHANGED <<postStartVars, restoreVars, purged>>

\* MemberReady with the status and the message tested apart.
MemberReadyCrossed(member, info) ==
    /\ info # "err"
    /\ info = "incus"
    /\ member.Status \in {"Evacuated", "Online"}
    /\ member.Message \in {"Unavailable due to maintenance", "Fully operational"}

\* Lines 533-548: whether the loop goes on to the next member (continue)
\* rather than ending the round not ready.
MemberReady(member, info) ==
    /\ info # "err"
    /\ info = "incus"
    /\ \/ member.Status = "Evacuated" /\ member.Message = "Unavailable due to maintenance"
       \/ member.Status = "Online" /\ member.Message = "Fully operational"

\* ConvergeCheck with `continue` in place of the `break` of line 556.
ConvergeCheckNoBreak ==
    /\ pc = "convergeCheck"
    /\ IF Len(poll.infos) >= poll.count
       THEN /\ Goto("convergeFetch", "Converge")
            /\ poll' = NoPoll
       ELSE \E member \in PolledMember(Len(poll.infos) + 1), info \in ServerInfos :
               /\ poll' = [poll EXCEPT !.members = Append(@, member),
                                       !.infos = Append(@, info)]
               /\ IF MemberReady(member, info)
                  THEN Goto("convergeCheck", "Converge")
                  ELSE Goto("convergeSleep", "Converge")
    /\ UNCHANGED <<postStartVars, restoreVars, purged>>

\* Lines 531-556: one member of the round, or its end with ready still true.
ConvergeCheck ==
    /\ pc = "convergeCheck"
    /\ IF Len(poll.infos) >= poll.count
       THEN /\ Goto("validateTarget", "Converge")
            /\ UNCHANGED poll
       ELSE \E member \in PolledMember(Len(poll.infos) + 1), info \in ServerInfos :
               /\ poll' = [poll EXCEPT !.members = Append(@, member),
                                       !.infos = Append(@, info)]
               /\ IF MemberReady(member, info)
                  THEN Goto("convergeCheck", "Converge")
                  ELSE Goto("convergeSleep", "Converge")
    /\ UNCHANGED <<postStartVars, restoreVars, purged>>

\* Lines 527 and 552: time.Sleep(30 * time.Second), then the next round.
ConvergeSleep ==
    /\ pc = "convergeSleep"
    /\ poll' = NoPoll
    /\ Goto("convergeFetch", "Converge")
    /\ UNCHANGED <<postStartVars, restoreVars, purged>>

\* Lines 560-565.
ValidateTarget ==
    /\ pc = "validateTarget"
    /\ \E ok \in BOOLEAN :
          IF ok THEN Goto("restore", "ValidateTarget")
          ELSE ReturnErr("targetInfo", "ValidateTarget")
    /\ UNCHANGED <<postStartVars, poll, restoreVars, purged>>

\* Lines 567-574.
RestoreBegin ==
    /\ pc = "restore"
    /\ IF ~flagClusterMember /\ clustered
       THEN \E ok \in BOOLEAN, n \in 0..MaxMembers :
               IF ~ok
               THEN /\ ReturnErr("restoreMembers", "Restore")
                    /\ UNCHANGED <<clusterMembers, memberIdx>>
               ELSE /\ Goto("restoreRequest", "Restore")
                    /\ clusterMembers' = MemberList(n)
                    /\ memberIdx' = 1
       ELSE /\ Goto("confirmUninstall", "")
            /\ UNCHANGED <<clusterMembers, memberIdx>>
    /\ UNCHANGED <<flagVars, connVars, srcReads, pathVars, rewriteVars, prompts,
                   evacVars, daemonVars, fsVars, cmdsRun, poll, restoreVars, purged>>

\* Lines 576-582.
RestoreRequest ==
    /\ pc = "restoreRequest"
    /\ IF memberIdx > Len(clusterMembers)
       THEN /\ Goto("confirmUninstall", "Restore")
            /\ UNCHANGED restoreSent
       ELSE \E ok \in BOOLEAN :
               /\ restoreSent' = Append(restoreSent, clusterMembers[memberIdx])
               /\ IF ok THEN Goto("restoreWait", "Restore")
                  ELSE ReturnErr("restoreRequest", "Restore")
    /\ UNCHANGED <<postStartVars, poll, restoreDone, purged>>

\* RestoreWait with the error of op.Wait() formatted and dropped.
RestoreWaitDropsErr ==
    /\ pc = "restoreWait"
    /\ \E ok \in BOOLEAN :
          /\ IF ok THEN Goto("restoreRequest", "Restore")
             ELSE DropErr("restoreWait", "restoreRequest", "Restore")
          /\ restoreDone' = Append(restoreDone, clusterMembers[memberIdx])
          /\ memberIdx' = memberIdx + 1
    /\ UNCHANGED <<flagVars, connVars, srcReads, pathVars, rewriteVars, prompts,
                   clusterMembers, evacVars, daemonVars, fsVars, cmdsRun, poll,
                   restoreSent, purged>>

\* Lines 584-587.
RestoreWait ==
    /\ pc = "restoreWait"
    /\ \E ok \in BOOLEAN :
          IF ok
          THEN /\ Goto("restoreRequest", "Restore")
               /\ restoreDone' = Append(restoreDone, clusterMembers[memberIdx])
               /\ memberIdx' = memberIdx + 1
          ELSE /\ ReturnErr("restoreWait", "Restore")
               /\ UNCHANGED <<restoreDone, memberIdx>>
    /\ UNCHANGED <<flagVars, connVars, srcReads, pathVars, rewriteVars, prompts,
                   clusterMembers, evacVars, daemonVars, fsVars, cmdsRun, poll,
                   restoreSent, purged>>

\* ------------------------------------------------------------------ purge

\* ConfirmUninstall with the os.Exit(1) of a declined confirmation left out.
ConfirmUninstallIgnoresNo ==
    /\ pc = "confirmUninstall"
    /\ IF ~flagYes
       THEN \E a \in AskBool :
               /\ prompts' = Asked("Uninstall the LXD package?", a)
               /\ IF a = "err" THEN ReturnErr("confirmUninstall", "")
                  ELSE Goto("purge", "")
       ELSE /\ Goto("purge", "")
            /\ UNCHANGED prompts
    /\ UNCHANGED <<flagVars, connVars, srcReads, pathVars, rewriteVars,
                   clusterMembers, memberIdx, evacVars, daemonVars, fsVars,
                   cmdsRun, poll, restoreVars, purged>>

\* Lines 591-601.
ConfirmUninstall ==
    /\ pc = "confirmUninstall"
    /\ IF ~flagYes
       THEN \E a \in AskBool :
               /\ prompts' = Asked("Uninstall the LXD package?", a)
               /\ CASE a = "err" -> ReturnErr("confirmUninstall", "")
                    [] a = "no" -> Exit1("")
                    [] OTHER -> Goto("purge", "")
       ELSE /\ Goto("purge", "")
            /\ UNCHANGED prompts
    /\ UNCHANGED <<flagVars, connVars, srcReads, pathVars, rewriteVars,
                   clusterMembers, memberIdx, evacVars, daemonVars, fsVars,
                   cmdsRun, poll, restoreVars, purged>>

\* Lines 603-610: `return nil` ends the run with exit code 0.
Purge ==
    /\ pc = "purge"
    /\ \E ok \in BOOLEAN :
          IF ok
          THEN /\ purged' = TRUE
               /\ pc' = "done"
               /\ exitCode' = 0
               /\ errs' = errs
               /\ phases' = AddPhase("Purge")
          ELSE /\ UNCHANGED purged
               /\ ReturnErr("purge", "Purge")
    /\ UNCHANGED <<postStartVars, poll, restoreVars>>

\* ---------------------------------------------------------- specifications

Next ==
    \/ CheckRoot \/ FindSource \/ FindTarget \/ ConnectSource \/ ConnectTarget
    \/ Validate \/ Paths \/ GetStoragePools \/ ManglePool \/ MangleOVN
    \/ Confirm \/ EvacuateBegin \/ EvacuateRequest \/ EvacuateWait
    \/ StopSource \/ StopTarget \/ Unmount \/ WipeTarget \/ MoveData
    \/ MigrateDatabase \/ WritePatch \/ RunCommand \/ CleanupDirs
    \/ RepairSymlink \/ StartTarget \/ ClusterPrompt \/ Warmup
    \/ ConvergeFetch \/ ConvergeCheck \/ ConvergeSleep \/ ValidateTarget
    \/ RestoreBegin \/ RestoreRequest \/ RestoreWait \/ ConfirmUninstall
    \/ Purge

\* One run of lxd-to-incus, from its start to its exit.
Spec == Init /\ [][Next]_vars

\* The run keeps executing: no step of Run waits forever for its answer.
LiveSpec == Spec /\ WF_vars(Next)

\* The configuration of a pool that is the same on every cluster member:
\* all of it but the member-specific source.
GlobalConfig(pool) == [k \in DOMAIN pool.Config \ {"source"} |-> pool.Config[k]]

\* The lists a daemon answers: a pool name names one pool, which a
\* standalone daemon lists once and a cluster once per member, with the same
\* driver and global configuration.
PoolLists(isClustered) ==
    {ps \in SeqsUpTo(PoolUniverse, MaxPools) :
        \A i, j \in 1..Len(ps) :
            (i # j /\ ps[i].Name = ps[j].Name) =>
                /\ isClustered
                /\ ps[i].Driver = ps[j].Driver
                /\ GlobalConfig(ps[i]) = GlobalConfig(ps[j])}

\* The rewriter alone: the loop of lines 201-237 of a primary run, on any
\* list of at most MaxPools descriptors.
InitRewrite ==
    /\ pc = "manglePools"
    /\ flagYes \in BOOLEAN
    /\ flagClusterMember = FALSE
    /\ envNoEvacuate = FALSE
    /\ clustered \in BOOLEAN
    /\ storagePools \in PoolLists(clustered)
    /\ exitCode = -1
    /\ errs = {}
    /\ phases = <<"Discover", "Connect", "Validate", "GatherRewrites">>
    /\ srcClient = "connected"
    /\ srcReads = 2
    /\ sourcePaths = SourceDaemonPath
    /\ targetPaths = TargetDaemonPath
    /\ poolIdx = 1
    /\ rbdRenamed = << >>
    /\ rewriteStatements = << >>
    /\ rewriteCommands = << >>
    /\ prompts = {}
    /\ clusterMembers = << >>
    /\ memberIdx = 1
    /\ evacSent = << >>
    /\ evacDone = << >>
    /\ sourceRunning = TRUE
    /\ targetRunning = TRUE
    /\ fsLog = << >>
    /\ symlinks = FoundSymlinks
    /\ linkIdx = 1
    /\ patchFile = << >>
    /\ cmdsRun = << >>
    /\ poll = NoPoll
    /\ restoreSent = << >>
    /\ restoreDone = << >>
    /\ purged = FALSE

NextRewrite == ManglePool

RewriteSpec == InitRewrite /\ [][NextRewrite]_vars

\* The targets os.Readlink may return: below the source root, elsewhere,
\* below the source root with the root's bytes occurring again, and
\* elsewhere with the root's bytes inside.
LinkTargets ==
    {SourceDaemonPath \o <<"/", "p">>, <<"/", "x">>,
     SourceDaemonPath \o SourceDaemonPath, <<"/", "x">> \o SourceDaemonPath}

\* The state directories Target.Paths() may name: one unrelated to the
\* source root, one that has the source root as a string prefix.
TargetRoots == {TargetDaemonPath, SourceDaemonPath \o <<"i">>}

\* The symlink repair alone: the loop of lines 471-493 of a standalone
\* --yes run in which every step before it succeeded, on any list of at
\* most MaxLinks symlinks.
InitRepair ==
    /\ pc = "symlinks"
    /\ flagYes = TRUE
    /\ flagClusterMember = FALSE
    /\ envNoEvacuate \in BOOLEAN
    /\ clustered = FALSE
    /\ storagePools = << >>
    /\ exitCode = -1
    /\ errs = {}
    /\ phases = <<"Discover", "Connect", "Validate", "GatherRewrites", "Stop",
                  "Unmount", "Wipe", "Move", "MigrateDB", "Cleanup">>
    /\ srcClient = "connected"
    /\ srcReads = 3
    /\ sourcePaths = SourceDaemonPath
    /\ targetPaths \in TargetRoots
    /\ poolIdx = 1
    /\ rbdRenamed = << >>
    /\ rewriteStatements = << >>
    /\ rewriteCommands = << >>
    /\ prompts = {}
    /\ clusterMembers = << >>
    /\ memberIdx = 1
    /\ evacSent = << >>
    /\ evacDone = << >>
    /\ sourceRunning = FALSE
    /\ targetRunning = FALSE
    /\ \E isMountPoint \in BOOLEAN :
          fsLog = <<"Unmount target guestapi", "Unmount target shmounts">>
                     \o WipeOps \o MoveOps(isMountPoint)
                     \o <<"migrateDatabase">> \o CleanupOps
    /\ symlinks \in SeqsUpTo(LinkTargets, MaxLinks)
    /\ linkIdx = 1
    /\ patchFile = << >>
    /\ cmdsRun = << >>
    /\ poll = NoPoll
    /\ restoreSent = << >>
    /\ restoreDone = << >>
    /\ purged = FALSE

NextRepair == RepairSymlink

RepairSpec == InitRepair /\ [][NextRepair]_vars

\* ------------------------------------------------------------- properties

\* Run has called source.Stop (line 344).
StopBegun == "Stop" \in Range(phases)

\* C1: no filesystem mutation (unmount, wipe, move, bind mount, database
\* migration, patch write, cleanup) is performed unless source.Stop and
\* target.Stop have both succeeded.
C1_StoppedBeforeMutation ==
    [][fsLog' # fsLog =>
          /\ ~sourceRunning /\ ~targetRunning
          /\ "stopSource" \notin errs /\ "stopTarget" \notin errs]_vars

\* C2: a phase that returned an error, the two Stop phases included, ends
\* the run there with exit code 1; a run exits 0 only if no phase failed.
C2_ErrorEndsRun ==
    errs # {} => pc = "done" /\ exitCode = 1

\* The errors Run can return before the Stop phase, up to the confirmation.
PreStopErrors ==
    {"root", "noSource", "noTarget", "connectSource", "sourceInfo",
     "connectTarget", "validate", "sourcePaths", "targetPaths", "listPools",
     "clusterMembers", "poolNames", "getPool", "ovsQuery", "ovnConvert",
     "ovsConvert", "confirm"}

MigrationDeclined == <<"Proceed with the migration?", "no">> \in prompts

\* C3: a run that failed or was declined before the Stop phase has asked no
\* daemon to stop, sent no evacuate request and changed nothing on disk.
C3_EarlyFailureNoAction ==
    (pc = "done" /\ (errs \cap PreStopErrors # {} \/ MigrationDeclined)) =>
        /\ ~StopBegun
        /\ sourceRunning /\ targetRunning
        /\ evacSent = << >>
        /\ fsLog = << >> /\ patchFile = << >> /\ symlinks = FoundSymlinks
        /\ cmdsRun = << >>

\* A clustered run declined at the confirmation, with rewrites gathered.
C3_Witness ==
    /\ pc = "done" /\ MigrationDeclined /\ clustered
    /\ rewriteStatements # << >> /\ rewriteCommands # << >>

\* C4: from the call of source.Stop on, the source daemon's configuration
\* is not read and the statement and command lists do not change.
C4_RewritesBeforeStop ==
    [][(pc = "stopSource" \/ StopBegun) =>
          /\ srcReads' = srcReads
          /\ rewriteStatements' = rewriteStatements
          /\ rewriteCommands' = rewriteCommands]_vars

\* Both lists gathered, the source stopped, the patch written and every
\* command run.
C4_Witness ==
    /\ pc = "cleanup" /\ ~sourceRunning
    /\ rewriteStatements # << >> /\ patchFile = JoinLines(rewriteStatements)
    /\ rewriteCommands # << >> /\ cmdsRun = rewriteCommands

\* C5: a --cluster-member run in which no step fails performs exactly
\* Discover, Connect, Stop, Wipe, Move, Migrate-DB, Cleanup, Start,
\* Validate-target.
C5_MemberSequence ==
    (flagClusterMember /\ pc = "done" /\ errs = {}) =>
        phases = <<"Discover", "Connect", "Stop", "Wipe", "Move", "MigrateDB",
                   "Cleanup", "Start", "ValidateTarget">>

EvacuateErrors == {"evacuateMembers", "evacuateRequest", "evacuateWait"}

\* C6: evacuate requests are sent only in a clustered primary run without
\* the override, one per member in list order, each operation awaited before
\* the next request; a failure ends the run before any stop or mutation.
C6_Evacuate ==
    /\ ("Evacuate" \in Range(phases) \/ evacSent # << >>) =>
          clustered /\ ~flagClusterMember /\ ~envNoEvacuate
    /\ evacSent = MemberList(Len(evacSent))
    /\ pc \in {"evacRequest", "evacWait"} => Len(evacSent) <= Len(clusterMembers)
    /\ (pc = "stopSource" /\ "Evacuate" \in Range(phases)) =>
          evacSent = clusterMembers /\ evacDone = clusterMembers
    /\ \/ evacDone = evacSent
       \/ /\ evacSent = Append(evacDone, Len(evacSent))
          /\ \/ pc = "evacWait"
             \/ pc = "done" /\ errs \cap {"evacuateRequest", "evacuateWait"} # {}
    /\ errs \cap EvacuateErrors # {} =>
          /\ pc = "done" /\ exitCode = 1
          /\ ~StopBegun /\ sourceRunning /\ targetRunning
          /\ fsLog = << >>

\* The wait for the second member's evacuation failed.
C6_Witness ==
    /\ pc = "done" /\ "evacuateWait" \in errs
    /\ Len(evacSent) = 2 /\ Len(evacDone) = 1

\* The two (Status, Message) pairs of a member that counts as migrated.
AcceptedPairs ==
    {<<"Evacuated", "Unavailable due to maintenance">>,
     <<"Online", "Fully operational">>}

Accepted(member, info) ==
    info = "incus" /\ <<member.Status, member.Message>> \in AcceptedPairs

\* The polling round fetched the list and accepted every member of it.
RoundAccepted ==
    /\ poll.fetched
    /\ Len(poll.members) = poll.count /\ Len(poll.infos) = poll.count
    /\ \A i \in 1..poll.count : Accepted(poll.members[i], poll.infos[i])

ConvergePcs == {"convergeFetch", "convergeCheck", "convergeSleep"}

\* The convergence wait has run and ended.
ConvergeEnded == "Converge" \in Range(phases) /\ pc \notin ConvergePcs

RestoreErrors == {"restoreMembers", "restoreRequest", "restoreWait"}

\* C7: restore requests are sent only in a clustered primary run, after the
\* convergence wait ended with every member accepted, one per member, each
\* awaited before the next; the first failure ends the run without purge.
C7_Restore ==
    /\ ("Restore" \in Range(phases) \/ restoreSent # << >>) =>
          /\ clustered /\ ~flagClusterMember
          /\ ConvergeEnded /\ RoundAccepted
    /\ restoreSent = MemberList(Len(restoreSent))
    /\ pc \in {"restoreRequest", "restoreWait"} => Len(restoreSent) <= Len(clusterMembers)
    /\ (pc \in {"confirmUninstall", "purge"} /\ "Restore" \in Range(phases)) =>
          restoreSent = clusterMembers /\ restoreDone = clusterMembers
    /\ \/ restoreDone = restoreSent
       \/ /\ restoreSent = Append(restoreDone, Len(restoreSent))
          /\ \/ pc = "restoreWait"
             \/ pc = "done" /\ errs \cap {"restoreRequest", "restoreWait"} # {}
    /\ errs \cap RestoreErrors # {} =>
          /\ pc = "done" /\ exitCode = 1
          /\ ~purged /\ "Purge" \notin Range(phases)

\* The wait for the second member's restore failed.
C7_Witness ==
    /\ pc = "done" /\ "restoreWait" \in errs
    /\ Len(restoreSent) = 2 /\ Len(restoreDone) = 1

\* C8: the convergence wait ends only in a round whose member list was
\* fetched and whose every member reported the target's identity and one of
\* the two accepted (Status, Message) pairs; a round that sleeps and retries
\* had a failed fetch or a member that is not accepted.
C8_ConvergenceAccepts ==
    /\ ConvergeEnded => RoundAccepted
    /\ pc = "convergeSleep" =>
          \/ ~poll.fetched
          \/ /\ poll.members # << >>
             /\ ~Accepted(poll.members[Len(poll.members)],
                          poll.infos[Len(poll.infos)])

\* The wait ended on a round of two members, one evacuated and one online.
C8_Witness ==
    /\ ConvergeEnded /\ poll.count = 2
    /\ poll.members[1].Status = "Evacuated" /\ poll.members[2].Status = "Online"

\* The steps of the convergence wait: the warm-up sleep and the polling loop.
WaitPcs == ConvergePcs \cup {"warmup"}

\* A step of the wait stays in the wait or goes on to the validation of the
\* target, and returns no error.
WaitStep ==
    pc \in WaitPcs =>
        /\ pc' \in WaitPcs \cup {"validateTarget"}
        /\ errs' = errs
        /\ exitCode' = exitCode

\* C9: the convergence wait returns no error, whatever a round finds; and if
\* from some round on no round ends in the retry sleep (every round fetches
\* the list and accepts every member), the wait ends and the run goes on to
\* the validation of the target.
C9_ConvergenceNeverFails ==
    /\ [][WaitStep]_vars
    /\ <>[](pc # "convergeSleep") => [](pc \in WaitPcs => <>(pc = "validateTarget"))

\* A round that sleeps to retry after the server info of its second member
\* could not be fetched; the run has not failed.
C9_Witness ==
    /\ pc = "convergeSleep" /\ exitCode = -1
    /\ poll.fetched /\ poll.count = 2 /\ Len(poll.infos) = 2
    /\ poll.infos[2] = "err"

\* The ceph-backed descriptors, and the rename commands of the list for RBD
\* pool r.
CephPools == {i \in 1..Len(storagePools) : storagePools[i].Driver = "ceph"}

RenamesOf(r) ==
    {i \in 1..Len(rewriteCommands) :
        /\ rewriteCommands[i][1] = "rbd"
        /\ rewriteCommands[i][7] = <<r, "/lxd_", r>>}

\* C10: once the loop over the pools has ended, the command list holds
\* exactly one rename command for every RBD pool name a ceph-backed
\* descriptor resolves to.
C10_OneRenamePerRbdPool ==
    pc = "mangleOVN" =>
        \A i \in CephPools : Cardinality(RenamesOf(RbdPool(storagePools[i]))) = 1

\* The path `source` is the directory `root` or lies below it.
RootedUnder(source, root) ==
    \/ source = root
    \/ HasPrefix(source, root \o <<"/">>)

\* The descriptor the loop of line 202 is at, and its source.
AtPool == pc = "manglePools" /\ poolIdx <= Len(storagePools)
PoolSource == ConfigValue(storagePools[poolIdx].Config, "source")

\* C11: the iteration for a pool (of any driver) whose source is empty,
\* relative or not rooted under the source daemon's state directory (a
\* sibling that shares the root as a string prefix included) appends no
\* statement and no command.
C11_UnrootedPoolEmitsNothing ==
    [][(AtPool /\ ~RootedUnder(PoolSource, sourcePaths)) =>
          /\ rewriteStatements' = rewriteStatements
          /\ rewriteCommands' = rewriteCommands]_vars

\* The statement the claim expects for a source under the source root: the
\* target root, then what follows the source root in the source.
ExpectedStatement(source) ==
    <<"UPDATE storage_pools_config SET value='">>
        \o targetPaths \o SubSeq(source, Len(sourcePaths) + 1, Len(source))
        \o <<"' WHERE value='">> \o source \o <<"';">>

\* C12: the iteration for a pool whose source is a non-empty absolute path
\* rooted under the source daemon's state directory appends exactly one
\* statement, UPDATE storage_pools_config SET value='<new>' WHERE
\* value='<old>'; with <old> the source and <new> the source with its leading
\* source root replaced by the target root.
C12_RootedPoolOneStatement ==
    [][(AtPool /\ PoolSource # << >> /\ RootedUnder(PoolSource, sourcePaths)) =>
          rewriteStatements' = Append(rewriteStatements, ExpectedStatement(PoolSource))]_vars

\* The loop has ended with the statement for source /l/a and the statement
\* for a source in which the root occurs twice.
C12_Witness ==
    /\ pc = "mangleOVN"
    /\ rewriteStatements =
          << <<"UPDATE storage_pools_config SET value='", "/", "i", "/", "a",
               "' WHERE value='", "/", "l", "/", "a", "';">>,
             <<"UPDATE storage_pools_config SET value='", "/", "i", "/", "l",
               "' WHERE value='", "/", "l", "/", "l", "';">> >>

\* C13: with --yes no question is put to the operator in any phase.
C13_YesAsksNothing == flagYes => prompts = {}

\* Where a command was appended: ceph renames in the pool loop (line 221),
\* then OVN commands (line 261), then OVS commands (line 269).
CmdRank(cmd) ==
    CASE cmd[1] = "rbd" -> 1
      [] cmd[1] = "ovn-nbctl" -> 2
      [] OTHER -> 3

\* C14: the commands executed are a prefix of the accumulated list (ceph
\* renames, then OVN, then OVS commands), taken in its order and only after
\* the database migration succeeded; the first command that fails ends the
\* run with the commands before it executed and the target not started.
C14_CommandsInOrder ==
    /\ \A i, j \in 1..Len(rewriteCommands) :
          i < j => CmdRank(rewriteCommands[i]) <= CmdRank(rewriteCommands[j])
    /\ Len(cmdsRun) <= Len(rewriteCommands)
    /\ cmdsRun = SubSeq(rewriteCommands, 1, Len(cmdsRun))
    /\ cmdsRun # << >> =>
          /\ "migrateDatabase" \in Range(fsLog)
          /\ "migrateDatabase" \notin errs
    /\ "runCommand" \in errs =>
          /\ pc = "done" /\ exitCode = 1
          /\ cmdsRun # << >>
          /\ "Start" \notin Range(phases)

\* The second of four commands (two ceph renames, OVN, OVS) failed.
C14_Witness ==
    /\ pc = "done" /\ "runCommand" \in errs
    /\ Len(rewriteCommands) = 4 /\ Len(cmdsRun) = 2
    /\ cmdsRun[1][1] = "rbd" /\ rewriteCommands[3][1] = "ovn-nbctl"

\* A standalone host, --yes, no ceph pool, no OVN configuration.
NoCephPools == \A i \in 1..Len(storagePools) : storagePools[i].Driver # "ceph"
NoOVN ==
    \A i \in 1..Len(rewriteCommands) :
        rewriteCommands[i][1] \notin {"ovn-nbctl", "ovs-vsctl"}
PlainYesRun == ~clustered /\ ~flagClusterMember /\ flagYes /\ NoCephPools /\ NoOVN

\* Such a run asks nothing, evacuates, waits for and restores nothing, and
\* skips the confirmation.
NoClusterSteps ==
    /\ prompts = {}
    /\ evacSent = << >> /\ restoreSent = << >>
    /\ Range(phases) \cap {"Confirm", "Evacuate", "Converge", "Restore"} = {}
    /\ pc \notin WaitPcs \cup {"evacRequest", "evacWait", "restoreRequest", "restoreWait"}

\* The statements of the pools whose source the rewriter rewrites.
RewrittenPools ==
    {i \in 1..Len(storagePools) :
        SourceIsRewritten(ConfigValue(storagePools[i].Config, "source"), sourcePaths)}

\* C15 as stated: on a standalone host with --yes, no ceph pool and no OVN
\* the run sends no evacuate or restore request, does not wait for
\* convergence, asks nothing, and reaches the stop of the source with empty
\* statement and command lists.
C15_StraightToStop ==
    PlainYesRun =>
        /\ NoClusterSteps
        /\ (pc = "stopSource" \/ StopBegun) =>
              rewriteStatements = << >> /\ rewriteCommands = << >>

\* C15 amended: as above, with an empty command list and a statement list
\* that holds one statement per pool whose source is rewritten (empty only
\* when there is none).
C15_StraightToStopAmended ==
    PlainYesRun =>
        /\ NoClusterSteps
        /\ (pc = "stopSource" \/ StopBegun) =>
              /\ rewriteCommands = << >>
              /\ Len(rewriteStatements) = Cardinality(RewrittenPools)

\* Such a run ended with exit code 0, one local pool rewritten.
C15_Witness ==
    /\ pc = "done" /\ exitCode = 0 /\ purged
    /\ PlainYesRun /\ storagePools # << >>
    /\ Len(rewriteStatements) = 1 /\ rewriteCommands = << >>

\* The symlinks the loop of line 471 has recreated.
Repaired == {i \in 1..Len(symlinks) : i < linkIdx}

\* C16: the repair applied again to a symlink it has repaired leaves the
\* symlink pointing at the same target.
C16_RepairIdempotent ==
    \A i \in Repaired : NewTarget(symlinks[i], sourcePaths, targetPaths) = symlinks[i]

PrimaryClustered == clustered /\ ~flagClusterMember

\* C17: in a clustered primary run the target's server info is queried
\* only after the restore of every member has completed, and Purge comes
\* after that query.
C17_ValidateAfterRestore ==
    /\ (PrimaryClustered /\ (pc = "validateTarget" \/ "ValidateTarget" \in Range(phases))) =>
          /\ "Restore" \in Range(phases)
          /\ pc \notin {"restore", "restoreRequest", "restoreWait"}
    /\ "Purge" \in Range(phases) => "ValidateTarget" \in Range(phases)

\* target.Start has been called (line 498).
StartCalled == "Start" \in Range(phases)

\* The errors of Wipe, Move, Migrate-database, Apply-rewrites and Cleanup.
BarrierErrors ==
    {"wipe", "move", "migrateDatabase", "writePatch", "runCommand",
     "cleanupRemove", "readDir", "readlink", "removeSymlink", "symlink"}

\* Every operation of those phases has been performed.
BarrierPassed ==
    /\ Range(WipeOps) \subseteq Range(fsLog)
    /\ {"mv source logs", "mv source cache"} \subseteq Range(fsLog)
    /\ \/ "mv source daemon" \in Range(fsLog)
       \/ "Mount bind source daemon" \in Range(fsLog)
    /\ "migrateDatabase" \in Range(fsLog)
    /\ rewriteStatements # << >> =>
          /\ "WriteFile patch.global.sql" \in Range(fsLog)
          /\ patchFile = JoinLines(rewriteStatements)
    /\ cmdsRun = rewriteCommands
    /\ Range(CleanupOps) \subseteq Range(fsLog)
    /\ linkIdx > Len(symlinks)

\* C18: target.Start is called at most once, and only when Wipe, Move (the
\* three directories), Migrate-database, Apply-rewrites (the patch file
\* written if there are statements) and Cleanup have completed without
\* error; a run in which one of them failed never starts the target.
C18_StartBarrier ==
    /\ pc = "startTarget" => ~StartCalled
    /\ (pc = "startTarget" \/ StartCalled) =>
          BarrierPassed /\ errs \cap BarrierErrors = {}
    /\ errs \cap BarrierErrors # {} => pc = "done" /\ ~StartCalled

\* The target started after a bind-mounted move, a written patch and two
\* commands.
C18_Witness ==
    /\ StartCalled /\ "startTarget" \notin errs /\ targetRunning
    /\ "Mount bind source daemon" \in Range(fsLog)
    /\ patchFile # << >> /\ Len(cmdsRun) = 2

PurgeCalled == "Purge" \in Range(phases)

\* C19: source.Purge is called only after the target was started and
\* answered the validation query, the convergence wait (clustered) ended
\* and every restore (clustered primary run) succeeded, and without --yes
\* only after a yes to the uninstall question; a no ends the run with exit
\* code 1 and nothing purged.
C19_PurgeGuarded ==
    /\ (pc = "purge" \/ PurgeCalled) =>
          /\ StartCalled /\ "startTarget" \notin errs /\ targetRunning
          /\ "ValidateTarget" \in Range(phases) /\ "targetInfo" \notin errs
          /\ clustered => ConvergeEnded /\ RoundAccepted
          /\ PrimaryClustered =>
                /\ "Restore" \in Range(phases)
                /\ restoreSent = clusterMembers /\ restoreDone = clusterMembers
                /\ errs \cap RestoreErrors = {}
          /\ ~flagYes => <<"Uninstall the LXD package?", "yes">> \in prompts
    /\ purged => PurgeCalled
    /\ <<"Uninstall the LXD package?", "no">> \in prompts =>
          /\ pc = "done" /\ exitCode = 1
          /\ ~purged /\ ~PurgeCalled

\* The source purged in a clustered run of two members after a yes.
C19_Witness ==
    /\ purged /\ ~flagYes /\ PrimaryClustered
    /\ Len(restoreDone) = 2

ClusterStarted == <<"The command has been started on all other servers?", "yes">> \in prompts

\* A step at the prompt of a clustered primary run: on to the warm-up after
\* a yes, or the prompt again with no error returned.
ClusterPromptStep ==
    (pc = "clusterPrompt" /\ PrimaryClustered) =>
        \/ pc' = "warmup" /\ ClusterStarted'
        \/ /\ pc' = "clusterPrompt" /\ ~ClusterStarted'
           /\ errs' = errs /\ exitCode' = exitCode

====
